---------------------------- MODULE Spec2Model ----------------------------
(***************************************************************************)
(* Model of the xenon-fb-conversion programs: the tiled-to-linear address  *)
(* translator xeFbConvert, the CPU converter of src/main.cpp, the compute  *)
(* kernel of src/unnamed/part_001 and the per-frame render() pipeline of   *)
(* both programs.                                                          *)
(*                                                                         *)
(* A 32-bit word of memory is a sequence of its four bytes in memory       *)
(* (little-endian) order: <<byte0, byte1, byte2, byte3>>.                  *)
(***************************************************************************)
EXTENDS Integers, Sequences, FiniteSets, TLC

VARIABLES
  program,         \* which source file is running: "main" or "part_001"
  internalWidth,   \* globals internalWidth / internalHeight (part_001:19-20)
  internalHeight,
  resWidth,        \* globals resWidth / resHeight
  resHeight,
  file,            \* fbmem.bin: [exists, len, kind]
  bufferLen,       \* bytes allocated for `buffer`
  bytesRead,       \* bytes of the file that f.read stored in `buffer`
  pixelsLen,       \* pixels.size(), in elements
  pixelsConverted, \* TRUE once ConvertFramebufferCPU has overwritten pixels
  ssboSize,        \* bytes allocated by glBufferData for pixelBuffer
  ssboBytes,       \* bytes copied by the last glBufferSubData
  ssboFrame,       \* frame of the last glBufferSubData (0: none yet)
  texture,         \* o_texture: texel index -> [val, frame, writes]
  pending,         \* work groups of the dispatch that have not run yet
  barrier,         \* barrier bits issued since the last dispatch
  pc,              \* position of the control thread
  drawn,           \* the full-screen draw of this frame has been issued
  frame,           \* number of the frame being rendered
  sampled,         \* frames of the texels the last draw fetched
  stores,          \* imageStore calls executed since the last dispatch
  running,         \* main()'s loop flag
  texel_pos,       \* one kernel invocation: gl_GlobalInvocationID.xy
  srcX, srcY, stdIndex, xeIndex, packedColor, wrote,
  cx, cy,          \* loop variables x, y of ConvertFramebufferCPU
  stdPixPos, xePixPos, outPixel,
  seenXe,          \* tiled pixel indices the kernel translator has produced
  seenCpu,         \* tiled pixel indices (byte offset / 4) of the CPU translator
  byteOrders       \* byte orders that turn each kernel texel into the CPU pixel

cfgVars    == <<program, internalWidth, internalHeight, resWidth, resHeight>>
hostVars   == <<file, bufferLen, bytesRead, pixelsLen, pixelsConverted>>
gpuVars    == <<ssboSize, ssboBytes, ssboFrame, texture, pending, barrier, sampled,
               stores>>
ctlVars    == <<pc, drawn, frame, running>>
threadVars == <<texel_pos, srcX, srcY, stdIndex, xeIndex, packedColor, wrote>>
loopVars   == <<cx, cy, stdPixPos, xePixPos, outPixel, seenXe, seenCpu,
               byteOrders>>
vars == <<cfgVars, hostVars, gpuVars, ctlVars, threadVars, loopVars>>

----------------------------------------------------------------------------
(* Bounds of the model.                                                    *)

\* Translator sweep and converter loop: widths / heights of 1..MaxTiles
\* tiles of 32 pixels.
MaxTilesX == 2
MaxTilesY == 2

\* Frames the render loop runs before the quit event has arrived.
MaxFrames == 2

\* Kernel invocations: internal and output resolutions, in tiles of 32.
MaxInternalTilesX == 7
MaxInternalTilesY == 2
MaxResTilesX == 3
MaxResTilesY == 1

----------------------------------------------------------------------------
(* C integer operators on two's-complement ints.  \div and % of TLA+ are   *)
(* floor division and non-negative remainder, which is what >> and the low *)
(* bit of a two's-complement int are, also for negative operands.          *)

RECURSIVE BitAnd(_, _)
BitAnd(a, b) ==
  IF a = 0 \/ b = 0 THEN 0
  ELSE IF a = -1 THEN b
  ELSE IF b = -1 THEN a
  ELSE (a % 2) * (b % 2) + 2 * BitAnd(a \div 2, b \div 2)

RECURSIVE BitXor(_, _)
BitXor(a, b) ==
  IF a = 0 THEN b
  ELSE IF b = 0 THEN a
  ELSE ((a + b) % 2) + 2 * BitXor(a \div 2, b \div 2)

BitNot(a) == -a - 1

Shl(a, n) == a * 2^n

Shr(a, n) == a \div 2^n

\* #define TILE(x) ((((x) + 31) >> 5) << 5)
TILE(x) == Shl(Shr(x + 31, 5), 5)

----------------------------------------------------------------------------
(* The address translators.                                                *)

\* xeFbConvert of the shader with the column mask 28 mistyped as 24.
xeFbConvertMask24(width, addr) ==
  LET y == addr \div (width * 4)
      x == (addr % (width * 4)) \div 4
  IN  ((BitAnd(y, BitNot(31)) * width) + BitAnd(x, BitNot(31)) * 32)
      + BitXor(BitAnd(x, 3) + Shl(BitAnd(y, 1), 2) + Shl(BitAnd(x, 24), 1)
                 + Shl(BitAnd(y, 30), 5),
               Shl(BitAnd(y, 8), 2))

\* The compute shader's xeFbConvert (part_001:89-95): returns a pixel index.
xeFbConvert(width, addr) ==
  LET y == addr \div (width * 4)
      x == (addr % (width * 4)) \div 4
  IN  ((BitAnd(y, BitNot(31)) * width) + BitAnd(x, BitNot(31)) * 32)
      + BitXor(BitAnd(x, 3) + Shl(BitAnd(y, 1), 2) + Shl(BitAnd(x, 28), 1)
                 + Shl(BitAnd(y, 30), 5),
               Shl(BitAnd(y, 8), 2))

\* xeFbConvert of main.cpp with the row-swizzle XOR left out.
xeFbConvertCpuNoSwizzle(width, addr) ==
  LET y == addr \div (width * 4)
      x == (addr % (width * 4)) \div 4
      offset ==
        (((BitAnd(y, BitNot(31)) * width) + BitAnd(x, BitNot(31)) * 32)
         + (BitAnd(x, 3) + Shl(BitAnd(y, 1), 2) + Shl(BitAnd(x, 28), 1)
              + Shl(BitAnd(y, 30), 5)))
        * 4
  IN  offset

\* main.cpp's xeFbConvert (main.cpp:232-241): the offset is multiplied by 4
\* before it is returned.
xeFbConvertCpu(width, addr) ==
  LET y == addr \div (width * 4)
      x == (addr % (width * 4)) \div 4
      offset ==
        (((BitAnd(y, BitNot(31)) * width) + BitAnd(x, BitNot(31)) * 32)
         + BitXor(BitAnd(x, 3) + Shl(BitAnd(y, 1), 2) + Shl(BitAnd(x, 28), 1)
                    + Shl(BitAnd(y, 30), 5),
                  Shl(BitAnd(y, 8), 2)))
        * 4
  IN  offset

\* #define XE_PIXEL_TO_STD_ADDR(x, y) (y * resWidth + x) * 4
XE_PIXEL_TO_STD_ADDR(w, x, y) == (y * w + x) * 4

\* #define XE_PIXEL_TO_XE_ADDR(x, y) xeFbConvert(resWidth, XE_PIXEL_TO_STD_ADDR(x, y))
XE_PIXEL_TO_XE_ADDR(w, x, y) == xeFbConvertCpu(w, XE_PIXEL_TO_STD_ADDR(w, x, y))

----------------------------------------------------------------------------
(* IEEE 754 binary32 arithmetic, as far as the kernel uses it.  A float is *)
(* <<m, e>> with value m * 2^e, where m = 0 or 2^23 <= m < 2^24.  All      *)
(* intermediate values stay below 2^31.                                    *)

FZero == <<0, 0>>

RECURSIVE FNormUp(_, _)
\* m * 2^e with 0 < m < 2^24, shifted left until the mantissa has 24 bits.
FNormUp(m, e) == IF m >= 8388608 THEN <<m, e>> ELSE FNormUp(2 * m, e - 1)

\* float(n) for 0 <= n < 2^24: exact.
IntToFloat(n) == IF n = 0 THEN FZero ELSE FNormUp(n, 0)

\* Round to nearest, ties to even: mantissa m with the discarded part `low`
\* out of `unit` (low < unit).
FRound(m, e, low, unit) ==
  LET up == (2 * low > unit) \/ (2 * low = unit /\ m % 2 = 1)
      r  == IF up THEN m + 1 ELSE m
  IN  IF r = 16777216 THEN <<8388608, e + 1>> ELSE <<r, e>>

RECURSIVE FDivBits(_, _, _, _)
\* Long division: n more quotient bits of r / d (r < d); <<quotient, remainder>>.
FDivBits(q, r, d, n) ==
  IF n = 0 THEN <<q, r>>
  ELSE IF 2 * r >= d THEN FDivBits(2 * q + 1, 2 * r - d, d, n - 1)
       ELSE FDivBits(2 * q, 2 * r, d, n - 1)

\* a / b for floats a, b (b # 0), correctly rounded.
FDiv(a, b) ==
  IF a[1] = 0 THEN FZero
  ELSE LET ge == a[1] >= b[1]
           \* the quotient of the mantissas lies in (1/2, 2)
           r0 == IF ge THEN a[1] - b[1] ELSE 2 * a[1] - b[1]
           e0 == IF ge THEN a[2] - b[2] - 23 ELSE a[2] - b[2] - 24
           qr == FDivBits(1, r0, b[1], 23)
       IN  FRound(qr[1], e0, qr[2], b[1])

\* a * b for floats a, b, correctly rounded.  The 48-bit product of the
\* mantissas is built from 12-bit halves.
FMul(a, b) ==
  IF a[1] = 0 \/ b[1] = 0 THEN FZero
  ELSE LET a1 == a[1] \div 4096   a0 == a[1] % 4096
           b1 == b[1] \div 4096   b0 == b[1] % 4096
           lo  == a0 * b0
           mid == a1 * b0 + a0 * b1 + (lo \div 4096)
           hi  == a1 * b1 + (mid \div 4096)
           low == (mid % 4096) * 4096 + (lo % 4096)  \* the low 24 bits
       IN  IF hi >= 8388608
           THEN FRound(hi, a[2] + b[2] + 24, low, 16777216)
           ELSE FRound(2 * hi + (low \div 8388608), a[2] + b[2] + 23,
                       low % 8388608, 8388608)

\* int(f): truncation toward zero of a non-negative float.
FloatToInt(f) ==
  IF f[1] = 0 THEN 0
  ELSE IF f[2] >= 0 THEN f[1] * 2^(f[2])
  ELSE IF f[2] <= -24 THEN 0
  ELSE f[1] \div 2^(-(f[2]))

----------------------------------------------------------------------------
(* The compute kernel of part_001 (lines 99-123), one invocation.          *)

\* Lines 110-115, one axis: scale = tiled / float(res);
\* src = int(float(pos) * scale).
MapToSource(pos, tiled, res) ==
  LET scale == FDiv(IntToFloat(tiled), IntToFloat(res))
  IN  FloatToInt(FMul(IntToFloat(pos), scale))

\* Lines 100-119: what invocation gid = <<x, y>> computes before it reads
\* pixel_data.  wrote = FALSE: the OOB check returned.
KernelIndex(gid, iW, iH, rW, rH) ==
  IF gid[1] >= rW \/ gid[2] >= rH
  THEN [wrote |-> FALSE, srcX |-> 0, srcY |-> 0, stdIndex |-> 0, xeIndex |-> 0]
  ELSE LET tiledWidth  == TILE(iW)
           tiledHeight == TILE(iH)
           sX  == MapToSource(gid[1], tiledWidth, rW)
           sY  == MapToSource(gid[2], tiledHeight, rH)
           std == sY * tiledWidth + sX
       IN  [wrote |-> TRUE, srcX |-> sX, srcY |-> sY, stdIndex |-> std,
            xeIndex |-> xeFbConvert(tiledWidth, std * 4)]

----------------------------------------------------------------------------
(* Values of the variables a specification does not use.                   *)

NoWord == <<0, 0, 0, 0>>
NoFile == [exists |-> FALSE, len |-> 0, kind |-> "none"]

HostUnused ==
  /\ file = NoFile /\ bufferLen = 0 /\ bytesRead = 0
  /\ pixelsLen = 0 /\ pixelsConverted = FALSE

GpuUnused ==
  /\ ssboSize = 0 /\ ssboBytes = 0 /\ ssboFrame = 0
  /\ texture = <<>> /\ pending = {} /\ barrier = {} /\ sampled = {}
  /\ stores = 0

CtlUnused == pc = "none" /\ drawn = FALSE /\ frame = 0 /\ running = FALSE

ThreadUnused ==
  /\ texel_pos = <<0, 0>> /\ srcX = 0 /\ srcY = 0 /\ stdIndex = 0
  /\ xeIndex = 0 /\ packedColor = NoWord /\ wrote = "none"

LoopUnused ==
  /\ cx = 0 /\ cy = 0 /\ stdPixPos = 0 /\ xePixPos = 0 /\ outPixel = NoWord
  /\ seenXe = {} /\ seenCpu = {} /\ byteOrders = {}

----------------------------------------------------------------------------
(* SpecTranslate: both translators applied to the linear pixel indices     *)
(* 0 .. paddedWidth*paddedHeight-1 in turn, each passed as the byte offset *)
(* index*4, the way ConvertFramebufferCPU (main.cpp:251-256) and the       *)
(* kernel (part_001:118-119) call them.  cx counts the indices translated. *)

TranslateInit ==
  /\ program = "both"
  /\ resWidth \in {32 * k : k \in 1..MaxTilesX}
  /\ resHeight \in {32 * k : k \in 1..MaxTilesY}
  /\ internalWidth = resWidth /\ internalHeight = resHeight
  /\ HostUnused /\ GpuUnused /\ CtlUnused /\ ThreadUnused /\ LoopUnused

Translate ==
  /\ cx < resWidth * resHeight
  /\ LET addr == cx * 4
         xe   == xeFbConvert(resWidth, addr)
         pos  == xeFbConvertCpu(resWidth, addr)
     IN  /\ stdPixPos' = addr
         /\ xeIndex' = xe
         /\ xePixPos' = pos
         /\ seenXe' = seenXe \cup {xe}
         /\ seenCpu' = seenCpu \cup {pos \div 4}
  /\ cx' = cx + 1
  /\ UNCHANGED <<cfgVars, hostVars, gpuVars, ctlVars, cy, outPixel, byteOrders,
                 texel_pos, srcX, srcY, stdIndex, packedColor, wrote>>

SpecTranslate == TranslateInit /\ [][Translate]_vars

----------------------------------------------------------------------------
(* Claims about the address translator, under SpecTranslate.               *)

\* C1: for paddedWidth and paddedHeight multiples of 32, the translator
\* maps the linear pixel indices 0 .. paddedWidth*paddedHeight-1 to tiled
\* pixel indices that all lie in that range and are pairwise distinct: after
\* cx indices have been translated, cx different tiled indices of the range
\* have been produced (and so, after all of them, the whole range).  The
\* CPU translator's byte offsets, divided by 4, are counted the same way.
C1_Bijection ==
  LET range == 0 .. (resWidth * resHeight - 1)
  IN  /\ seenXe \subseteq range
      /\ Cardinality(seenXe) = cx
      /\ seenCpu \subseteq range
      /\ Cardinality(seenCpu) = cx

\* C1 witness: a whole 64 x 64 range has been translated, and every tiled
\* index of the range has been produced.
C1_Witness ==
  /\ resWidth = 64 /\ resHeight = 64
  /\ cx = resWidth * resHeight
  /\ seenXe = 0 .. (resWidth * resHeight - 1)

\* The tiled pixel index as the specification's section 4.1 states it,
\* written with division and remainder instead of masks and shifts.
TiledPixelIndex(paddedWidth, linearByteOffset) ==
  LET y == linearByteOffset \div (paddedWidth * 4)
      x == (linearByteOffset % (paddedWidth * 4)) \div 4
      macroTileOffset == (y \div 32) * 32 * paddedWidth + (x \div 32) * 32 * 32
      withinTileOffset ==
        (x % 4) + (y % 2) * 4 + ((x \div 4) % 8) * 8 + ((y \div 2) % 16) * 64
      swizzled ==
        IF (y \div 8) % 2 = 0 THEN withinTileOffset
        ELSE IF (withinTileOffset \div 32) % 2 = 0 THEN withinTileOffset + 32
        ELSE withinTileOffset - 32
  IN  macroTileOffset + swizzled

\* C9 as stated: both the CPU function and the kernel function return the
\* pixel index; translate(1280, 0) = 0 and translate(1280, 128) = 1024.
C9_Original ==
  /\ cx > 0 =>
       /\ xeIndex = TiledPixelIndex(resWidth, stdPixPos)
       /\ xePixPos = TiledPixelIndex(resWidth, stdPixPos)
  /\ xeFbConvert(1280, 0) = 0 /\ xeFbConvert(1280, 128) = 1024
  /\ xeFbConvertCpu(1280, 0) = 0 /\ xeFbConvertCpu(1280, 128) = 1024

\* C9 amended: the kernel function returns the pixel index; the CPU function
\* returns that index times 4, a byte offset.  translate(1280, 0) = 0 in
\* both; translate(1280, 128) is 1024 in the kernel and 4096 on the CPU.
C9_Amended ==
  /\ cx > 0 =>
       /\ xeIndex = TiledPixelIndex(resWidth, stdPixPos)
       /\ xePixPos = 4 * TiledPixelIndex(resWidth, stdPixPos)
  /\ xeFbConvert(1280, 0) = 0 /\ xeFbConvert(1280, 128) = 1024
  /\ xeFbConvertCpu(1280, 0) = 0 /\ xeFbConvertCpu(1280, 128) = 4096

\* C9 witness: the pixel (x, y) = (37, 9) of a 64-wide buffer, a row with
\* the swizzle bit set in the second macro tile column, has been translated
\* to 1024 + ((1 + 4 + 8 + 256) XOR 32) = 1325, and to 5300 on the CPU.
C9_Witness ==
  /\ resWidth = 64
  /\ cx > 0
  /\ stdPixPos = (9 * 64 + 37) * 4
  /\ xeIndex = 1325
  /\ xePixPos = 5300

----------------------------------------------------------------------------
(* The dump file and the host buffers.                                     *)

\* Byte i of a dump file of the given kind.  "opaque" dumps have alpha 255
\* in every pixel, "ramp" dumps have varying bytes everywhere.
DumpByte(kind, i) ==
  IF kind = "opaque" /\ i % 4 = 3 THEN 255
  ELSE (i * 7 + (i \div 256) * 3 + 1) % 256

\* buffer[i]: make_unique<uint8_t[]> zero-initialises; f.read stored
\* bytesRead bytes of the file at the start.
BufferByte(i) == IF i < bytesRead THEN DumpByte(file.kind, i) ELSE 0

\* The 32-bit word at pixel index i of buffer, as its bytes in memory order.
BufferWord(i) ==
  <<BufferByte(4 * i), BufferByte(4 * i + 1), BufferByte(4 * i + 2),
    BufferByte(4 * i + 3)>>

\* The word msb << 24 | b2 << 16 | b1 << 8 | lsb, as its bytes in memory order.
Word(msb, b2, b1, lsb) == <<lsb, b1, b2, msb>>

\* part_001:181  #define COLOR(r, g, b, a) ((a) << 24 | (r) << 16 | (g) << 8 | (b) << 0)
COLOR(r, g, b, a) == Word(a, r, g, b)

\* main.cpp:139-144  #define COLOR(r, g, b, a) ((b) << 24 | (g) << 16 | (r) << 8 | (a) << 0)
COLORCpu(r, g, b, a) == Word(b, g, r, a)

----------------------------------------------------------------------------
(* SpecConvert: the loop of ConvertFramebufferCPU (main.cpp:247-264) over  *)
(* a complete dump, and beside each of its iterations the invocation of    *)
(* the part_001 kernel for the same coordinate, output resolution equal to *)
(* the padded internal resolution, reading the same tiled framebuffer.     *)

\* The 24 orders of the four byte positions of a word.
BytePerms ==
  {p \in [1..4 -> 1..4] : \A i, j \in 1..4 : i # j => p[i] # p[j]}

\* The word w with its bytes reordered by p.
Permute(w, p) == [i \in 1..4 |-> w[p[i]]]

ConvertInit ==
  /\ program = "both"
  /\ resWidth \in {32 * k : k \in 1..MaxTilesX}
  /\ resHeight \in {32 * k : k \in 1..MaxTilesY}
  /\ internalWidth = resWidth /\ internalHeight = resHeight
  /\ \E kind \in {"ramp", "opaque"} :
       file = [exists |-> TRUE, len |-> resWidth * resHeight * 4, kind |-> kind]
  /\ bufferLen = file.len /\ bytesRead = file.len
  /\ pixelsLen = resWidth * resHeight /\ pixelsConverted = FALSE
  /\ GpuUnused /\ CtlUnused /\ ThreadUnused
  /\ cx = 0 /\ cy = 0 /\ stdPixPos = 0 /\ xePixPos = 0 /\ outPixel = NoWord
  /\ seenXe = {} /\ seenCpu = {} /\ byteOrders = BytePerms

\* The loop body reading red and green from each other's byte.
CpuPixelSwapped(w, x, y) ==
  LET pos == XE_PIXEL_TO_XE_ADDR(w, x, y)
      b == BufferByte(pos)
      r == BufferByte(pos + 2)
      g == BufferByte(pos + 1)
  IN  COLORCpu(r, g, b, 255)

\* The body of the loop for (x, y) (main.cpp:255-261): the pixel written to
\* outputBuffer[stdPixPos / 4].
CpuPixel(w, x, y) ==
  LET pos == XE_PIXEL_TO_XE_ADDR(w, x, y)
      b == BufferByte(pos)
      r == BufferByte(pos + 1)
      g == BufferByte(pos + 2)
      a == BufferByte(pos + 3)
  IN  COLORCpu(r, g, b, 255)

\* One iteration of the loop, and the kernel invocation for the same (x, y).
\* byteOrders keeps the byte orders that turn every kernel texel so far
\* into the CPU pixel of the same coordinate.
ConvertPixel ==
  /\ cy < resHeight
  /\ LET k == KernelIndex(<<cx, cy>>, internalWidth, internalHeight,
                          resWidth, resHeight)
         o == CpuPixel(resWidth, cx, cy)
         t == BufferWord(k.xeIndex)
     IN  /\ stdPixPos' = XE_PIXEL_TO_STD_ADDR(resWidth, cx, cy)
         /\ xePixPos' = XE_PIXEL_TO_XE_ADDR(resWidth, cx, cy)
         /\ outPixel' = o
         /\ texel_pos' = <<cx, cy>>
         /\ wrote' = IF k.wrote THEN "yes" ELSE "no"
         /\ srcX' = k.srcX /\ srcY' = k.srcY
         /\ stdIndex' = k.stdIndex /\ xeIndex' = k.xeIndex
         /\ packedColor' = t
         /\ byteOrders' = {p \in byteOrders : Permute(t, p) = o}
  /\ IF cx + 1 < resWidth
     THEN cx' = cx + 1 /\ cy' = cy
     ELSE cx' = 0 /\ cy' = cy + 1
  /\ UNCHANGED <<cfgVars, hostVars, gpuVars, ctlVars, seenXe, seenCpu>>

SpecConvert == ConvertInit /\ [][ConvertPixel]_vars

\* C2: at every output coordinate the CPU converter and the kernel build
\* their pixel from the same tiled source pixel, and the two pixels carry
\* the same four channel bytes, in an order that differs by one fixed
\* reordering for all pixels.
C2_Original ==
  wrote = "yes" =>
    /\ xePixPos = 4 * xeIndex
    /\ byteOrders # {}

\* C2 amended: at every output coordinate both converters read the same
\* tiled source pixel (the CPU at byte offset 4 * the kernel's pixel index).
\* The kernel texel is the source word unchanged.  The CPU pixel holds the
\* source's bytes 0, 1, 2 at the fixed positions 3, 1, 2 and the constant 255
\* at position 0: the source's byte 3 (alpha) is dropped, not reordered.
C2_Amended ==
  wrote = "yes" =>
    /\ xePixPos = 4 * xeIndex
    /\ packedColor = BufferWord(xeIndex)
    /\ outPixel = <<255, packedColor[2], packedColor[3], packedColor[1]>>

\* C2 witness: the pixel (37, 9) of a 64-wide dump has been converted by
\* both, from a source pixel whose alpha byte is not 255.
C2_Witness ==
  /\ wrote = "yes" /\ resWidth = 64 /\ texel_pos = <<37, 9>>
  /\ xeIndex = 1325 /\ xePixPos = 5300
  /\ packedColor[4] # 255
  /\ outPixel[1] = 255

\* C11, the CPU converter's half: the four bytes ConvertFramebufferCPU
\* reads for each (x, y), xePixPos .. xePixPos + 3, are inside
\* [0, resWidth * resHeight * 4), the length of buffer in main.cpp.
C11_CpuInBounds ==
  /\ xePixPos >= 0
  /\ xePixPos + 3 < resWidth * resHeight * 4
  /\ xePixPos + 3 < bufferLen

----------------------------------------------------------------------------
(* Spec: the two programs from static initialisation through main() and    *)
(* the render loop.  The control thread issues the GL commands of render() *)
(* in program order; the work groups of a dispatch run asynchronously, in  *)
(* any order, each work group's 16 x 16 invocations as one step (they      *)
(* write disjoint texels and read nothing another invocation writes).      *)

Programs == {"main", "part_001"}

\* The unpadded internal resolution the pipeline is run with: 32 x 20, which
\* pads to 32 x 32 (the programs have 1280 x 720, which pads to 1280 x 736).
PipeResolutions == {<<32, 20>>}

\* main.cpp:145  int pitch = resWidth * resHeight;
\* part_001:182  int pitch = resWidth * resHeight * sizeof(uint32_t);
Pitch(prog, w, h) == IF prog = "main" THEN w * h ELSE w * h * 4

\* main.cpp:266, part_001:275  std::make_unique<uint8_t[]>(pitch * 4)
BufferAlloc(prog, w, h) == Pitch(prog, w, h) * 4

\* main.cpp:146, part_001:183: the value the pixels vector is filled with.
PixelsFill(prog) ==
  IF prog = "main" THEN COLORCpu(0, 0, 0, 255) ELSE COLOR(30, 30, 30, 255)

\* The dump files tried: none, an empty one, half a dump, a complete dump.
DumpFiles(w, h) ==
  { NoFile,
    [exists |-> TRUE, len |-> 0, kind |-> "ramp"],
    [exists |-> TRUE, len |-> w * h * 2, kind |-> "ramp"],
    [exists |-> TRUE, len |-> w * h * 4, kind |-> "ramp"] }

Init ==
  /\ program \in Programs
  /\ \E r \in PipeResolutions : internalWidth = r[1] /\ internalHeight = r[2]
  /\ resWidth = TILE(internalWidth)
  /\ resHeight = TILE(internalHeight)
  /\ file \in DumpFiles(resWidth, resHeight)
  /\ bufferLen = BufferAlloc(program, resWidth, resHeight)
  /\ bytesRead = 0
  /\ pixelsLen = Pitch(program, resWidth, resHeight)
  /\ pixelsConverted = FALSE
  /\ GpuUnused
  /\ pc = "main" /\ drawn = FALSE /\ frame = 0 /\ running = TRUE
  /\ ThreadUnused /\ LoopUnused

Min(a, b) == IF a < b THEN a ELSE b

\* main(), the dump load (main.cpp:291-300, part_001:311-320): a missing
\* file prints a message; f.read stores at most pitch * 4 bytes.
LoadDump ==
  /\ pc = "main"
  /\ bytesRead' = IF file.exists
                  THEN Min(file.len, Pitch(program, resWidth, resHeight) * 4)
                  ELSE 0
  /\ pc' = "initOpenGL"
  /\ UNCHANGED <<cfgVars, file, bufferLen, pixelsLen, pixelsConverted, gpuVars,
                 drawn, frame, running, threadVars, loopVars>>

\* initOpenGL(): initTexture allocates resWidth x resHeight texels,
\* initPixelBuffer allocates pixels.size() bytes, filled from pixels.data().
\* Then the first poll of the event loop.
InitOpenGL ==
  /\ pc = "initOpenGL"
  /\ texture' = [t \in 0 .. (resWidth * resHeight - 1) |->
                   [val |-> NoWord, frame |-> 0]]
  /\ ssboSize' = pixelsLen
  /\ ssboBytes' = 0 /\ ssboFrame' = 0
  /\ pc' = "Idle" /\ frame' = 1
  /\ running' \in (IF MaxFrames = 1 THEN {FALSE} ELSE BOOLEAN)
  /\ UNCHANGED <<cfgVars, hostVars, pending, barrier, sampled, stores, drawn,
                 threadVars, loopVars>>

\* The byte count of the glBufferSubData of the frame:
\* main.cpp:228 newPixelData.size(), part_001:271 pitch.
UploadSize(prog) == IF prog = "main" THEN pixelsLen ELSE Pitch(prog, resWidth, resHeight)

\* render(), the upload.  main.cpp:270-271 runs ConvertFramebufferCPU over
\* buffer into pixels and uploads pixels; part_001:278 uploads buffer.
\* glBufferSubData past the end of the store is an error that copies nothing.
PassPixelBuffer ==
  /\ pc = "Idle"
  /\ pixelsConverted' = (program = "main")
  /\ IF UploadSize(program) <= ssboSize
     THEN ssboBytes' = UploadSize(program) /\ ssboFrame' = frame
     ELSE UNCHANGED <<ssboBytes, ssboFrame>>
  /\ pc' = "Uploaded"
  /\ UNCHANGED <<cfgVars, file, bufferLen, bytesRead, pixelsLen, ssboSize,
                 texture, pending, barrier, sampled, stores, drawn, frame,
                 running, threadVars, loopVars>>

\* A dispatch that sizes its grid by the tile size instead of the group size.
NumGroupsPerTile(res) == res \div 32

\* glDispatchCompute(resWidth / 16, resHeight / 16, 1): groups per axis.
NumGroups(res) == res \div 16

\* computeDispatch() without its glMemoryBarrier.
NoBarrierBits == {}

\* computeDispatch(), the glMemoryBarrier after the dispatch.
DispatchBarrierBits == {"SHADER_IMAGE_ACCESS", "TEXTURE_FETCH"}

\* render(): computeDispatch() and the glMemoryBarrier that follows it.
ComputeDispatch ==
  /\ pc = "Uploaded"
  /\ pending' = (0 .. (NumGroups(resWidth) - 1)) \X (0 .. (NumGroups(resHeight) - 1))
  /\ barrier' = DispatchBarrierBits \cup {"TEXTURE_UPDATE"}
  /\ stores' = 0
  /\ pc' = "Converted"
  /\ UNCHANGED <<cfgVars, hostVars, ssboSize, ssboBytes, ssboFrame, texture,
                 sampled, drawn, frame, running, threadVars, loopVars>>

\* pixels[i] of main.cpp: the fill, or what ConvertFramebufferCPU stored.
PixelsWord(i) ==
  IF pixelsConverted THEN CpuPixel(resWidth, i % resWidth, i \div resWidth)
  ELSE PixelsFill(program)

\* pixel_data[i] for an index inside the buffer store: what the last
\* glBufferSubData copied there, or else the initial data of glBufferData.
SsboWord(i) ==
  IF ssboFrame > 0 /\ 4 * i + 4 <= ssboBytes
  THEN IF program = "main" THEN PixelsWord(i) ELSE BufferWord(i)
  ELSE PixelsFill(program)

\* What a read outside the buffer store may return.
OobWords == {NoWord, <<255, 255, 255, 255>>}

\* pixel_data[i]; oob is the word an out-of-bounds read returns.
PixelData(i, oob) ==
  IF i >= 0 /\ 4 * i + 4 <= ssboSize THEN SsboWord(i) ELSE oob

----------------------------------------------------------------------------
(* SpecKernel: single invocations of the part_001 kernel, for internal and *)
(* output resolutions that differ.  The host has read a complete dump of   *)
(* the padded internal resolution into buffer (part_001:311-320), and the  *)
(* storage buffer is what initPixelBuffer allocated and passPixelBuffer    *)
(* filled (part_001:184-190, 268-273): pitch bytes, pitch taken from the   *)
(* output resolution.  Invocation ids are drawn from every column of the   *)
(* dispatched grid and of one more block, which only the OOB check keeps   *)
(* from writing, and from the rows KernelRows picks of them.               *)

\* The rows of the invocations: the first rows, a row with the swizzle bit
\* set, the last row of the image, and the first and last row past it.
KernelRows(rH) == {0, 1, 9, 22, rH - 1, rH, rH + 15}

KernelInit ==
  /\ program = "part_001"
  /\ internalWidth \in {32 * k : k \in 1..MaxInternalTilesX}
  /\ internalHeight \in {32 * k - 16 : k \in 1..MaxInternalTilesY}
  /\ resWidth \in {32 * k : k \in 1..MaxResTilesX}
  /\ resHeight \in {32 * k : k \in 1..MaxResTilesY}
  /\ file = [exists |-> TRUE,
             len |-> TILE(internalWidth) * TILE(internalHeight) * 4,
             kind |-> "ramp"]
  /\ bufferLen = BufferAlloc(program, resWidth, resHeight)
  /\ bytesRead = Min(file.len, bufferLen)
  /\ pixelsLen = Pitch(program, resWidth, resHeight)
  /\ pixelsConverted = FALSE
  /\ ssboSize = pixelsLen
  /\ ssboBytes = Pitch(program, resWidth, resHeight) /\ ssboFrame = 1
  /\ texture = <<>> /\ pending = {} /\ barrier = {} /\ sampled = {}
  /\ stores = 0
  /\ CtlUnused /\ ThreadUnused /\ LoopUnused

\* One invocation of main() of the compute shader (part_001:99-123).
KernelInvocation ==
  /\ wrote = "none"
  /\ \E x \in 0 .. (resWidth + 15), y \in KernelRows(resHeight),
        oob \in OobWords :
       LET k == KernelIndex(<<x, y>>, internalWidth, internalHeight,
                            resWidth, resHeight)
       IN  /\ texel_pos' = <<x, y>>
           /\ wrote' = IF k.wrote THEN "yes" ELSE "no"
           /\ srcX' = k.srcX /\ srcY' = k.srcY
           /\ stdIndex' = k.stdIndex /\ xeIndex' = k.xeIndex
           /\ packedColor' = IF k.wrote THEN PixelData(k.xeIndex, oob)
                                        ELSE NoWord
  /\ UNCHANGED <<cfgVars, hostVars, gpuVars, ctlVars, loopVars>>

SpecKernel == KernelInit /\ [][KernelInvocation]_vars

\* C8: for every output texel (x, y) inside the padded output resolution the
\* kernel's source coordinate is floor(x * paddedInternalW / paddedOutputW),
\* floor(y * paddedInternalH / paddedOutputH).
C8_ExactFloor ==
  wrote = "yes" =>
    /\ srcX = (texel_pos[1] * TILE(internalWidth)) \div resWidth
    /\ srcY = (texel_pos[2] * TILE(internalHeight)) \div resHeight

\* C11, the kernel's half: for every written output texel the source
\* coordinate is inside the padded internal resolution, the translated
\* index xeIndex is in [0, tiledWidth * tiledHeight), and the read
\* pixel_data[xeIndex] is inside the storage buffer the kernel reads.
C11_InBounds ==
  wrote = "yes" =>
    /\ srcX >= 0 /\ srcX < TILE(internalWidth)
    /\ srcY >= 0 /\ srcY < TILE(internalHeight)
    /\ xeIndex >= 0
    /\ xeIndex < TILE(internalWidth) * TILE(internalHeight)
    /\ 4 * xeIndex + 4 <= ssboSize

\* The index conditions of C11 alone, without the size of the storage
\* buffer.
C11_IndexInRange ==
  wrote = "yes" =>
    /\ srcX >= 0 /\ srcX < TILE(internalWidth)
    /\ srcY >= 0 /\ srcY < TILE(internalHeight)
    /\ xeIndex >= 0
    /\ xeIndex < TILE(internalWidth) * TILE(internalHeight)

\* The reads of the kernel are inside the storage buffer whenever the
\* padded internal resolution has no more pixels than the output resolution.
C11_InBoundsWhenNotLarger ==
  (wrote = "yes"
     /\ TILE(internalWidth) * TILE(internalHeight) <= resWidth * resHeight)
    => 4 * xeIndex + 4 <= ssboSize


----------------------------------------------------------------------------
(* The work groups of a dispatch of the pipeline.                          *)

\* KernelIndex of every invocation of the dispatched grid, by texel index,
\* for each resolution of PipeResolutions: KernelIndex depends on nothing
\* else, and is evaluated once here instead of in every step.
KernelTable ==
  [r \in PipeResolutions |->
     [t \in 0 .. (TILE(r[1]) * TILE(r[2]) - 1) |->
        KernelIndex(<<t % TILE(r[1]), t \div TILE(r[1])>>, r[1], r[2],
                    TILE(r[1]), TILE(r[2]))] @@ <<>>]

\* The invocation with texel_pos = <<x, y>>, inside the image: the word it
\* stores at texel_pos, or <<>> when it returns without a store.
\* main.cpp:75-83 reads pixel_data[y * resWidth + x]; part_001:99-123 is
\* KernelIndex.
KernelStore(x, y, oob) ==
  IF program = "main"
  THEN PixelData(y * resWidth + x, oob)
  ELSE LET k == KernelTable[<<internalWidth, internalHeight>>][y * resWidth + x]
       IN  IF k.wrote THEN PixelData(k.xeIndex, oob) ELSE <<>>

\* One work group of the dispatch runs: each of its invocations stores its
\* word at its own texel_pos.  The dispatched grid lies inside the image
\* (resWidth and resHeight are multiples of 16), so no store falls outside.
RunWorkgroup ==
  \E g \in pending, oob \in OobWords :
    \E new \in {[t \in DOMAIN texture |->
                   IF <<(t % resWidth) \div 16, (t \div resWidth) \div 16>> = g
                   THEN KernelStore(t % resWidth, t \div resWidth, oob)
                   ELSE <<>>] @@ <<>>} :
        /\ texture' = [t \in DOMAIN texture |->
                         IF new[t] # <<>> THEN [val |-> new[t], frame |-> frame]
                         ELSE texture[t]]
        /\ stores' = stores + Cardinality({t \in DOMAIN texture : new[t] # <<>>})
        /\ pending' = pending \ {g}
        /\ UNCHANGED <<cfgVars, hostVars, ssboSize, ssboBytes, ssboFrame,
                       barrier, sampled, ctlVars, threadVars, loopVars>>

\* render(), glDrawArrays: the fragment shader fetches every texel.  After a
\* barrier with TEXTURE_FETCH the fetches wait for the image stores of the
\* shaders dispatched before the barrier.
Draw ==
  /\ pc = "Converted" /\ ~drawn
  /\ "TEXTURE_FETCH" \in barrier => pending = {}
  /\ sampled' = {texture[t].frame : t \in DOMAIN texture}
  /\ drawn' = TRUE
  /\ UNCHANGED <<cfgVars, hostVars, ssboSize, ssboBytes, ssboFrame, texture,
                 pending, barrier, stores, pc, frame, running, threadVars,
                 loopVars>>

\* render() swapping before it has drawn.
SwapBeforeDraw ==
  /\ pc = "Converted"
  /\ pc' = "Presented"
  /\ UNCHANGED <<cfgVars, hostVars, gpuVars, drawn, frame, running,
                 threadVars, loopVars>>

\* render(), SDL_GL_SwapWindow.
SwapWindow ==
  /\ pc = "Converted" /\ drawn
  /\ pc' = "Presented"
  /\ UNCHANGED <<cfgVars, hostVars, gpuVars, drawn, frame, running,
                 threadVars, loopVars>>

\* main(), the loop: while (running) { poll events; render(); }.  A quit
\* event seen by the poll clears running; the frame is still rendered.
NextFrame ==
  /\ pc = "Presented" /\ running
  /\ pc' = "Idle" /\ frame' = frame + 1 /\ drawn' = FALSE
  /\ running' \in (IF frame + 1 >= MaxFrames THEN {FALSE} ELSE BOOLEAN)
  /\ UNCHANGED <<cfgVars, hostVars, gpuVars, threadVars, loopVars>>

\* main(), after the loop: shutdownRender(), SDL_Quit().
Shutdown ==
  /\ pc = "Presented" /\ ~running
  /\ pc' = "Done"
  /\ UNCHANGED <<cfgVars, hostVars, gpuVars, drawn, frame, running,
                 threadVars, loopVars>>

Next ==
  \/ LoadDump \/ InitOpenGL \/ PassPixelBuffer \/ ComputeDispatch
  \/ RunWorkgroup \/ Draw \/ SwapWindow \/ NextFrame \/ Shutdown

Spec == Init /\ [][Next]_vars

----------------------------------------------------------------------------
(* Claims about the pipeline, under Spec.                                  *)

\* C3: the sampling pass of a frame reads the output image only after every
\* invocation of that frame's dispatch has stored its texel: every texel the
\* draw fetched was written by the dispatch of the current frame.
C3_NoPartialImage == drawn => sampled = {frame}

\* C3 witness: the draw of the second frame has fetched the image of the
\* second dispatch.
C3_Witness ==
  /\ program = "part_001" /\ drawn /\ frame = 2 /\ sampled = {2}
  /\ pending = {}

\* C4: every frame passes through Idle, Uploaded, Converted, Presented, Idle
\* in that order, none skipped or repeated: the upload has completed when
\* the kernel is dispatched, the kernel's stores have completed when the
\* draw samples, the draw precedes the swap, and the next frame's upload
\* starts only after the swap.
C4_FrameOrder ==
  [][ /\ pc' # pc =>
           <<pc, pc'>> \in { <<"main", "initOpenGL">>, <<"initOpenGL", "Idle">>,
                             <<"Idle", "Uploaded">>, <<"Uploaded", "Converted">>,
                             <<"Converted", "Presented">>, <<"Presented", "Idle">>,
                             <<"Presented", "Done">> }
      /\ pc' = "Converted" /\ pc # "Converted" => ssboFrame = frame
      /\ drawn' /\ ~drawn =>
           /\ pc = "Converted"
           /\ pending = {}
           /\ stores = resWidth * resHeight
      /\ pc' = "Presented" /\ pc # "Presented" => drawn
      /\ pc' = "Idle" /\ pc = "Presented" => frame' = frame + 1 /\ ~drawn'
      /\ ssboFrame' # ssboFrame => pc = "Idle" /\ pc' = "Uploaded"
    ]_vars

\* C4 witness: the second frame has been presented.
C4_Witness == pc = "Presented" /\ frame = 2 /\ drawn /\ ssboFrame = 2

\* C5: once a frame is Uploaded, all paddedWidth * paddedHeight * 4 bytes
\* have been copied into the storage buffer in this frame, and the storage
\* buffer was allocated with at least that many bytes.
C5_FullUpload ==
  pc = "Uploaded" =>
    /\ ssboFrame = frame
    /\ ssboBytes = resWidth * resHeight * 4
    /\ ssboSize >= resWidth * resHeight * 4

\* C6: with the dump file missing or of zero length the program goes on, and
\* after the frame conversion every destination pixel holds the default fill
\* colour, the packed value of RGB (30, 30, 30), alpha 255.
C6_DefaultFill ==
  /\ (~file.exists \/ file.len = 0)
  /\ pc \in {"Converted", "Presented", "Done"}
  /\ pending = {}
  => \A t \in DOMAIN texture : texture[t].val = COLOR(30, 30, 30, 255)

\* C7: in every state the byte length of the tiled framebuffer buffer is
\* paddedInternalWidth * paddedInternalHeight * 4.
C7_BufferLength ==
  bufferLen = TILE(internalWidth) * TILE(internalHeight) * 4

\* C10: when the (resWidth/16) x (resHeight/16) groups of a dispatch have
\* all run, every texel of the resWidth x resHeight image has been written
\* by this dispatch, by resWidth * resHeight stores in all, so by exactly
\* one invocation each; and an invocation of the part_001 kernel with
\* x >= resWidth or y >= resHeight returns without a store.
C10_ExactCover ==
  /\ pc = "Converted" /\ pending = {} =>
       /\ DOMAIN texture = 0 .. (resWidth * resHeight - 1)
       /\ \A t \in DOMAIN texture : texture[t].frame = frame
       /\ stores = resWidth * resHeight
  /\ \A gid \in {<<resWidth, 0>>, <<0, resHeight>>, <<resWidth + 15, 3>>,
                 <<5, resHeight + 15>>, <<resWidth, resHeight>>} :
       ~KernelIndex(gid, internalWidth, internalHeight, resWidth, resHeight).wrote

\* C10 witness: the four groups of the second dispatch have run and stored
\* 1024 texels.
C10_Witness ==
  /\ program = "part_001" /\ pc = "Converted" /\ pending = {}
  /\ frame = 2 /\ stores = 1024
  /\ \A t \in DOMAIN texture : texture[t].frame = 2

============================================================================
